---- MODULE Spec2Model ----
(***************************************************************************)
(* Model of the combobox controllers of packages/ui:                       *)
(*   AutocompeteMultiple (components/autocomplete-multiple.tsx) and        *)
(*   Autocomplete (the single-select combobox).                            *)
(* JavaScript strings are sequences of one-character strings; an optional  *)
(* value (undefined / null) is a sequence of length 0 or 1.                *)
(***************************************************************************)
EXTENDS Integers, Sequences, FiniteSets, TLC

\* ------------------------------------------------------------------ bounds
\* longest external value list that the caller passes
MaxValueLen == 2
\* largest maxSelected that the caller configures
MaxMaxSelected == 2
\* the debounce delay prop, in model time units
Delay == 2
\* the clock stops here
MaxTime == 5
\* number of keystrokes (handleSearch calls) while onSearch is configured
MaxCalls == 3
\* longest options list that the caller passes to the single-select later on
MaxOptionsLen == 2
\* number of form submissions
MaxSubmits == 3
\* number of stores made by the create factory
MaxStores == 2

\* -------------------------------------------------------- optional values
None == <<>>

Some(x) == <<x>>

IsSome(m) == Len(m) = 1

Get(m) == m[1]

\* --------------------------------------------------------------- strings
Range(s) == {s[i] : i \in DOMAIN s}

\* String.prototype.toLowerCase, on the characters the model uses
LowerChar(c) == IF c = "A" THEN "a" ELSE IF c = "B" THEN "b" ELSE c

ToLowerCase(s) == [i \in DOMAIN s |-> LowerChar(s[i])]

\* String.prototype.includes
Includes(s, t) == \E i \in 0..(Len(s) - Len(t)) : SubSeq(s, i + 1, i + Len(t)) = t

\* Array.prototype.filter with the predicate given as the set of kept elements
RECURSIVE FilterSeq(_, _)
FilterSeq(s, keep) ==
    IF s = <<>> THEN <<>>
    ELSE IF Head(s) \in keep THEN <<Head(s)>> \o FilterSeq(Tail(s), keep)
    ELSE FilterSeq(Tail(s), keep)

\* --------------------------------------------------------------- options
\* An option is a bare string (str = TRUE, value = label = the string) or a
\* record {value, label}.  o1 and o2 carry the same identity key.
o1 == [str |-> FALSE, value |-> <<"1">>, label |-> <<"a", "B">>]

o2 == [str |-> FALSE, value |-> <<"1">>, label |-> <<"b">>]

o3 == [str |-> FALSE, value |-> <<"2">>, label |-> <<"c">>]

\* the options prop of the multi-select
options == <<o1, o2, o3>>

OptionSet == Range(options)

\* texts typed into the search input of the multi-select
SearchTexts == {<<>>, <<"b">>}

getOptionLabel(option) == option.label

getOptionValue(option) == option.value

\* the search text compared as typed, without lower-casing
filterOptionCaseSensitive(option, search) ==
    Includes(getOptionLabel(option), search)

filterOption(option, search) ==
    Includes(ToLowerCase(getOptionLabel(option)), ToLowerCase(search))

\* JavaScript truthiness of `maxSelected` (undefined and 0 are falsy)
TruthyNumber(m) == IsSome(m) /\ Get(m) # 0

Keys(sel) == [i \in DOMAIN sel |-> getOptionValue(sel[i])]

SeqsUpTo(S, n) == UNION {[1..k -> S] : k \in 0..n}

\* ------------------------------------------------------------------ state
VARIABLES
    \* AutocompeteMultiple: props
    value, maxSelected, disabled,
    \* AutocompeteMultiple: useState
    open, selectedOptions, loading, searchValue,
    \* the component is mounted
    mounted,
    \* the onSearch prop: "none", "sync" or "async" (returns a promise)
    onSearchKind,
    \* the clock, and the pending timer of the debounced function
    now, timer,
    \* the handleSearch calls made while onSearch is configured
    searchCalls,
    \* the onSearch invocations, and those whose promise has not settled
    invocations, inFlight,
    \* history: what was pending when the component was unmounted
    unmountInfo,
    \* the arguments of the onChange calls made by the last step
    fired,
    \* history: the last operation, with the state it started from
    last,
    \* history: the run of consecutive toggles of one option
    tog,
    \* history: some external value had two entries with the same key
    dupSupplied,
    \* Autocomplete (single-select): the options and value props, and useState
    acOptionsProp, acValue, acOpen, selectedOption, initialSearch,
    \* its VirtualizedCommand, mounted while the popover is open: useState
    vcSearchValue, vcFilteredOptions,
    \* the arguments of its onChange calls made by the last step
    acFired,
    \* history: its last operation, with the selection it started from
    acLast,
    \* Modal with a form: open state, running submission, last step
    modal,
    \* the stores made by the create factory, and the reset registry
    stores

vars == <<value, maxSelected, disabled, open, selectedOptions, loading,
          searchValue, mounted, onSearchKind, now, timer, searchCalls,
          invocations, inFlight, unmountInfo, fired, last, tog, dupSupplied,
          acOptionsProp, acValue, acOpen, selectedOption, initialSearch,
          vcSearchValue, vcFilteredOptions, acFired, acLast, modal, stores>>

multiVars == <<value, maxSelected, disabled, open, selectedOptions, loading,
               searchValue, mounted, onSearchKind, now, timer, searchCalls,
               invocations, inFlight, unmountInfo, fired, last, tog, dupSupplied>>

acVars == <<acOptionsProp, acValue, acOpen, selectedOption, initialSearch,
            vcSearchValue, vcFilteredOptions, acFired, acLast>>

auxVars == <<modal, stores>>

ctrl == <<open, selectedOptions, loading, searchValue>>

props == <<value, maxSelected, disabled, onSearchKind>>

timing == <<now, timer, searchCalls, invocations, inFlight>>

NoOp == [op |-> "init", opt |-> None, arg |-> None,
         preSel |-> <<>>, preSearch |-> <<>>]

NoTog == [n |-> 0, opt |-> None, base |-> <<>>]

HasDup(sel) == \E i, j \in DOMAIN sel : i # j /\ getOptionValue(sel[i]) = getOptionValue(sel[j])

\* useState<T[]>(value || [])
InitialSelected(v) == IF IsSome(v) THEN Get(v) ELSE <<>>

\* the state every mounted controller starts from, whatever its props
InitState ==
    /\ open = FALSE
    /\ selectedOptions = InitialSelected(value)
    /\ loading = FALSE
    /\ searchValue = <<>>
    /\ mounted = TRUE
    /\ now = 0
    /\ timer = None
    /\ searchCalls = <<>>
    /\ invocations = <<>>
    /\ inFlight = {}
    /\ unmountInfo = None
    /\ fired = <<>>
    /\ last = NoOp
    /\ tog = NoTog
    /\ dupSupplied = HasDup(InitialSelected(value))

\* ------------------------------------------- VirtualizedCommand (multiple)
\* const filteredOptions = options.filter(option => filterOption(option, searchValue))
filteredOptions(search) ==
    FilterSeq(options, {o \in OptionSet : filterOption(o, search)})

\* membership by reference instead of by identity key
isSelectedByReference(sel, option) == option \in Range(sel)

\* selectedOptions.some(item => getOptionValue(item) === getOptionValue(option))
isSelected(sel, option) ==
    \E i \in DOMAIN sel : getOptionValue(sel[i]) = getOptionValue(option)

\* only the very option is removed, not every entry with its key
WithoutOptionByReference(sel, option) == FilterSeq(sel, Range(sel) \ {option})

\* selectedOptions.filter(item => getOptionValue(item) !== getOptionValue(option))
WithoutOption(sel, option) ==
    FilterSeq(sel, {x \in Range(sel) : getOptionValue(x) # getOptionValue(option)})

\* a newly selected option put first instead of last
newSelectedPrepended(sel, option) ==
    IF isSelected(sel, option) THEN WithoutOption(sel, option) ELSE <<option>> \o sel

newSelected(sel, option) ==
    IF isSelected(sel, option) THEN WithoutOption(sel, option) ELSE Append(sel, option)

\* ------------------------------------------------------ AutocompeteMultiple
\* if (maxSelected && currentValue.length > maxSelected) return;
ExceedsMax(m, currentValue) == TruthyNumber(m) /\ Len(currentValue) > Get(m)

Op(name, opt, arg) ==
    [op |-> name, opt |-> opt, arg |-> arg,
     preSel |-> selectedOptions, preSearch |-> searchValue]

\* the search text is not cleared by an accepted select
handleSelectOptionsKeepSearch(currentValue) ==
    IF ExceedsMax(maxSelected, currentValue)
    THEN /\ fired' = <<>>
         /\ UNCHANGED <<selectedOptions, searchValue>>
    ELSE /\ selectedOptions' = currentValue
         /\ fired' = <<currentValue>>
         /\ UNCHANGED searchValue

\* handleSelectOptions(currentValue)
handleSelectOptions(currentValue) ==
    IF ExceedsMax(maxSelected, currentValue)
    THEN /\ fired' = <<>>
         /\ UNCHANGED <<selectedOptions, searchValue>>
    ELSE /\ selectedOptions' = currentValue
         /\ searchValue' = <<>>
         /\ fired' = <<currentValue>>

\* the handler runs although the controller is disabled
SelectItemIgnoringDisabled(option) ==
    /\ mounted /\ open
    /\ option \in Range(filteredOptions(searchValue))
    /\ handleSelectOptions(newSelected(selectedOptions, option))
    /\ last' = Op("toggle", Some(option), Some(newSelected(selectedOptions, option)))
    /\ tog' = IF tog.n = 1 /\ tog.opt = Some(option)
              THEN [tog EXCEPT !.n = 2]
              ELSE [n |-> 1, opt |-> Some(option), base |-> selectedOptions]
    /\ UNCHANGED <<open, loading, mounted, unmountInfo, dupSupplied>>
    /\ UNCHANGED <<props, timing>>
    /\ UNCHANGED <<acVars, auxVars>>

\* onSelect of a rendered list item: VirtualizedCommand.handleSelectOption
SelectItem(option) ==
    /\ mounted /\ open
    /\ option \in Range(filteredOptions(searchValue))
    /\ IF disabled
       THEN /\ fired' = <<>>
            /\ UNCHANGED <<selectedOptions, searchValue>>
       ELSE handleSelectOptions(newSelected(selectedOptions, option))
    /\ last' = Op("toggle", Some(option),
                  IF disabled THEN None ELSE Some(newSelected(selectedOptions, option)))
    /\ tog' = IF tog.n = 1 /\ tog.opt = Some(option)
              THEN [tog EXCEPT !.n = 2]
              ELSE [n |-> 1, opt |-> Some(option), base |-> selectedOptions]
    /\ UNCHANGED <<open, loading, mounted, unmountInfo, dupSupplied>>
    /\ UNCHANGED <<props, timing>>
    /\ UNCHANGED <<acVars, auxVars>>

\* handleClearOption(option): the X button of a badge calls it for a selected
\* option; the handler itself takes any option
ClearOption(option) ==
    /\ mounted /\ ~disabled
    /\ selectedOptions' = WithoutOption(selectedOptions, option)
    /\ fired' = <<WithoutOption(selectedOptions, option)>>
    /\ last' = Op("clearOne", Some(option), None)
    /\ tog' = NoTog
    /\ UNCHANGED <<open, loading, searchValue, mounted, unmountInfo, dupSupplied>>
    /\ UNCHANGED <<props, timing>>
    /\ UNCHANGED <<acVars, auxVars>>

\* the clear-all button: handleClearAll
ClearAll ==
    /\ mounted /\ ~disabled
    /\ Len(selectedOptions) > 0
    /\ selectedOptions' = <<>>
    /\ fired' = << <<>> >>
    /\ last' = Op("clearAll", None, None)
    /\ tog' = NoTog
    /\ UNCHANGED <<open, loading, searchValue, mounted, unmountInfo, dupSupplied>>
    /\ UNCHANGED <<props, timing>>
    /\ UNCHANGED <<acVars, auxVars>>

\* Popover onOpenChange={setOpen}
OpenChange ==
    /\ mounted
    /\ open' = ~open
    /\ fired' = <<>>
    /\ last' = Op("open", None, None)
    /\ tog' = NoTog
    /\ UNCHANGED <<selectedOptions, loading, searchValue, mounted, unmountInfo, dupSupplied>>
    /\ UNCHANGED <<props, timing>>
    /\ UNCHANGED <<acVars, auxVars>>

\* useEffect(() => { if (value) setSelectedOptions(value) }, [value])
Resync(sel, v) == IF IsSome(v) THEN Get(v) ELSE sel

\* the caller passes another value prop
ChangeValue(v) ==
    /\ mounted
    /\ ~(v = None /\ value = None)
    /\ value' = v
    /\ selectedOptions' = Resync(selectedOptions, v)
    /\ dupSupplied' = (dupSupplied \/ HasDup(InitialSelected(v)))
    /\ fired' = <<>>
    /\ last' = Op("value", None, None)
    /\ tog' = NoTog
    /\ UNCHANGED <<open, loading, searchValue, mounted, unmountInfo>>
    /\ UNCHANGED <<maxSelected, disabled, onSearchKind, timing>>
    /\ UNCHANGED <<acVars, auxVars>>

\* ----------------------------------------------------- debounced search
\* a pending timer is left running instead of being restarted
ScheduleKeepPending(pending, text, at, call) ==
    IF IsSome(pending) THEN pending
    ELSE Some([due |-> at + Delay, text |-> text, call |-> call])

\* debouncedSearch(value): use-debouncy cancels the pending frame and waits
\* `delay` from this call
Schedule(pending, text, at, call) ==
    Some([due |-> at + Delay, text |-> text, call |-> call])

\* handleSearch(value): the Input's onChange
Search(text) ==
    /\ mounted /\ ~disabled
    /\ searchValue' = text
    /\ IF onSearchKind # "none"
       THEN /\ Len(searchCalls) < MaxCalls
            /\ searchCalls' = Append(searchCalls, [text |-> text, at |-> now])
            /\ timer' = Schedule(timer, text, now, Len(searchCalls) + 1)
       ELSE UNCHANGED <<searchCalls, timer>>
    /\ fired' = <<>>
    /\ last' = Op("search", None, None)
    /\ tog' = NoTog
    /\ UNCHANGED <<open, selectedOptions, loading, mounted, unmountInfo, dupSupplied>>
    /\ UNCHANGED <<props, now, invocations, inFlight>>
    /\ UNCHANGED <<acVars, auxVars>>

TimerDue == IsSome(timer) /\ now >= Get(timer).due

\* setLoading(true); onSearch?.(searchValue); setLoading(false);
\* the value of loading once the debounced callback has returned
LoadingAfterCallback(kind) == FALSE

\* onSearch gets the search text of the state instead of the callback's argument
SearchArgumentFromState(pending, current) == current

\* (searchValue: string) => { ...; onSearch?.(searchValue); ... }: the parameter
\* is the text the debounced function was called with, not the state
SearchArgument(pending, current) == pending.text

\* the debounce timer expires: the callback given to useDebouncyFn runs
FireTimer ==
    /\ TimerDue
    /\ invocations' = Append(invocations,
            [text |-> SearchArgument(Get(timer), searchValue), at |-> now,
             call |-> Get(timer).call])
    /\ inFlight' = IF onSearchKind = "async"
                   THEN inFlight \cup {Len(invocations) + 1} ELSE inFlight
    /\ loading' = LoadingAfterCallback(onSearchKind)
    /\ timer' = None
    /\ fired' = <<>>
    /\ UNCHANGED <<open, selectedOptions, searchValue, mounted, unmountInfo,
                   last, tog, dupSupplied, props, now, searchCalls>>
    /\ UNCHANGED <<acVars, auxVars>>

\* the promise returned by an asynchronous onSearch settles; nothing awaits it
Settle(i) ==
    /\ i \in inFlight
    /\ inFlight' = inFlight \ {i}
    /\ fired' = <<>>
    /\ UNCHANGED <<ctrl, mounted, unmountInfo, last, tog, dupSupplied, props,
                   now, timer, searchCalls, invocations>>
    /\ UNCHANGED <<acVars, auxVars>>

\* time passes; an expired timer runs before the clock moves on
Tick ==
    /\ now < MaxTime
    /\ ~TimerDue
    /\ now' = now + 1
    /\ fired' = <<>>
    /\ UNCHANGED <<ctrl, mounted, unmountInfo, last, tog, dupSupplied, props,
                   timer, searchCalls, invocations, inFlight>>
    /\ UNCHANGED <<acVars, auxVars>>

\* the pending frame survives the unmount
KeepOnUnmount(pending) == pending

\* use-debouncy cancels the pending frame when the component unmounts
ClearOnUnmount(pending) == None

Unmount ==
    /\ mounted
    /\ mounted' = FALSE
    /\ timer' = ClearOnUnmount(timer)
    /\ unmountInfo' = Some([at |-> now, timer |-> timer, inFlight |-> inFlight])
    /\ fired' = <<>>
    /\ UNCHANGED <<ctrl, last, tog, dupSupplied, props, now, searchCalls,
                   invocations, inFlight>>
    /\ UNCHANGED <<acVars, auxVars>>

\* ---------------------------------------------- Autocomplete (single-select)
\* the bare-string option ''
s0 == [str |-> TRUE, value |-> <<>>, label |-> <<>>]

\* the options prop of the single-select
acOptions == <<s0, o1, o2, o3>>

AcOptionSet == Range(acOptions)

\* texts typed into the CommandInput of the single-select
AcSearchTexts == {<<>>, <<"b">>, <<"B">>, <<"c">>}

\* JavaScript truthiness of a T | null | undefined: null, undefined and the
\* empty string are falsy, records and other strings are truthy
TruthyOption(m) == IsSome(m) /\ ~(Get(m).str /\ Get(m).value = <<>>)

\* value || null
ValueOrNull(v) == IF TruthyOption(v) THEN v ELSE None

\* selectedOption && getOptionValue(selectedOption) === getOptionValue(currentValue)
\*   ? null : currentValue
NewValue(selected, currentValue) ==
    IF TruthyOption(selected) /\ getOptionValue(Get(selected)) = getOptionValue(currentValue)
    THEN None
    ELSE Some(currentValue)

\* the search text is left as it was
LabelNotReset(newValue) == initialSearch

\* newValue ? getOptionLabel(newValue) : ''
LabelOrEmpty(newValue) ==
    IF TruthyOption(newValue) THEN getOptionLabel(Get(newValue)) ELSE <<>>

\* options.filter(option => filterOption(option, search))
AcFilter(search) ==
    FilterSeq(acOptionsProp, {o \in AcOptionSet : filterOption(o, search)})

AcNoOp == [op |-> "init", opt |-> None, preSel |-> None, preSearch |-> <<>>]

AcOp(name, opt) ==
    [op |-> name, opt |-> opt, preSel |-> selectedOption, preSearch |-> initialSearch]

\* the single-select is not part of the behaviour
AcIdle ==
    /\ acOptionsProp = acOptions
    /\ acValue = None
    /\ acOpen = FALSE
    /\ selectedOption = None
    /\ initialSearch = <<>>
    /\ vcSearchValue = <<>>
    /\ vcFilteredOptions = <<>>
    /\ acFired = <<>>
    /\ acLast = AcNoOp

\* --------------------------------------------------------- Modal with a form
\* isOpen: the isOpen prop; open: internalIsOpen; pending: handleSubmit calls
\* awaiting onSubmit; busy: the mounted form is submitting; closed: onClose
\* calls made by the last step; logged: console.error called by the last step
ModalMounted(isOpen) ==
    [isOpen |-> isOpen,
     open |-> IF IsSome(isOpen) THEN Get(isOpen) ELSE FALSE,
     pending |-> 0, busy |-> FALSE, submits |-> 0,
     closed |-> 0, logged |-> FALSE, last |-> "init", preOpen |-> FALSE]

\* --------------------------------------------------- the create factory
\* a store state is a set of <<key, value>> pairs
StateKeys(st) == {p[1] : p \in st}

\* zustand setState(partial): Object.assign({}, state, partial)
Merge(st, partial) == partial \cup {p \in st : p[1] \notin StateKeys(partial)}

InitialStates ==
    {{}, {<<"a", 0>>}, {<<"b", 0>>}, {<<"a", 0>>, <<"b", 0>>}}

Partials == {{<<"a", 1>>}, {<<"b", 1>>}, {<<"a", 0>>}}

\* list: the stores, each with the initialState its reset closure captured;
\* registry: storeResetFns, a reset closure named by the index of its store
NoStores ==
    [list |-> <<>>, registry |-> {}, last |-> "init", preRegistry |-> {},
     streak |-> 0, wasChanged |-> FALSE]

\* the modal and the stores are not part of the behaviour
AuxIdle ==
    /\ modal = ModalMounted(None)
    /\ stores = NoStores

\* the multi-select is not part of the behaviour
MultiIdle ==
    /\ value = None
    /\ maxSelected = None
    /\ disabled = FALSE
    /\ onSearchKind = "none"
    /\ InitState

\* after the first render and its effects: setSelectedOption(value || null)
InitSingle ==
    /\ acOptionsProp = acOptions
    /\ acValue \in {None} \cup {Some(o) : o \in AcOptionSet}
    /\ acOpen = FALSE
    /\ selectedOption = ValueOrNull(acValue)
    /\ initialSearch = <<>>
    /\ vcSearchValue = <<>>
    /\ vcFilteredOptions = <<>>
    /\ acFired = <<>>
    /\ acLast = AcNoOp
    /\ MultiIdle
    /\ AuxIdle

\* VirtualizedCommand mounts: useState(options), useState(initialSearch), then
\* the effect: if (initialSearch) handleSearch(initialSearch)
MountFiltered(search) == IF search # <<>> THEN AcFilter(search) ELSE acOptionsProp

\* Popover onOpenChange={setOpen}: the trigger opens the list, a dismissal
\* closes it; the popover content is mounted only while open
AcOpenChange ==
    /\ acOpen' = ~acOpen
    /\ IF acOpen
       THEN /\ vcSearchValue' = <<>>
            /\ vcFilteredOptions' = <<>>
       ELSE /\ vcSearchValue' = initialSearch
            /\ vcFilteredOptions' = MountFiltered(initialSearch)
    /\ acFired' = <<>>
    /\ acLast' = AcOp("open", None)
    /\ UNCHANGED <<acOptionsProp, acValue, selectedOption, initialSearch>>
    /\ UNCHANGED <<multiVars, auxVars>>

\* CommandInput onValueChange={handleSearch}
AcSearch(search) ==
    /\ acOpen
    /\ vcSearchValue' = search
    /\ vcFilteredOptions' = AcFilter(search)
    /\ acFired' = <<>>
    /\ acLast' = AcOp("search", None)
    /\ UNCHANGED <<acOptionsProp, acValue, acOpen, selectedOption, initialSearch>>
    /\ UNCHANGED <<multiVars, auxVars>>

\* onSelect of a rendered list item: Autocomplete.handleSelectOption
Activate(currentValue) ==
    /\ acOpen
    /\ currentValue \in Range(vcFilteredOptions)
    /\ selectedOption' = NewValue(selectedOption, currentValue)
    /\ initialSearch' = LabelOrEmpty(NewValue(selectedOption, currentValue))
    /\ acOpen' = FALSE
    /\ acFired' = <<NewValue(selectedOption, currentValue)>>
    /\ vcSearchValue' = <<>>
    /\ vcFilteredOptions' = <<>>
    /\ acLast' = AcOp("activate", Some(currentValue))
    /\ UNCHANGED <<acOptionsProp, acValue>>
    /\ UNCHANGED <<multiVars, auxVars>>

\* the caller passes another value prop: useEffect(() =>
\* setSelectedOption(value || null), [value]); the re-render gives the list a
\* new handleSearch, so its effect runs again when initialSearch is not ''
AcChangeValue(v) ==
    /\ v # acValue
    /\ acValue' = v
    /\ selectedOption' = ValueOrNull(v)
    /\ IF acOpen /\ initialSearch # <<>>
       THEN /\ vcSearchValue' = initialSearch
            /\ vcFilteredOptions' = AcFilter(initialSearch)
       ELSE UNCHANGED <<vcSearchValue, vcFilteredOptions>>
    /\ acFired' = <<>>
    /\ acLast' = AcOp("value", None)
    /\ UNCHANGED <<acOptionsProp, acOpen, initialSearch>>
    /\ UNCHANGED <<multiVars, auxVars>>

\* the caller passes another options list: handleSearch is made anew
\* (useCallback deps [options, filterOption]) and the list's effect runs again,
\* filtering only when initialSearch is not ''
AcChangeOptions(list) ==
    /\ list # acOptionsProp
    /\ acOptionsProp' = list
    /\ IF acOpen /\ initialSearch # <<>>
       THEN /\ vcSearchValue' = initialSearch
            /\ vcFilteredOptions' =
                   FilterSeq(list, {o \in AcOptionSet : filterOption(o, initialSearch)})
       ELSE UNCHANGED <<vcSearchValue, vcFilteredOptions>>
    /\ acFired' = <<>>
    /\ acLast' = AcOp("options", None)
    /\ UNCHANGED <<acValue, acOpen, selectedOption, initialSearch>>
    /\ UNCHANGED <<multiVars, auxVars>>

\* ------------------------------------------------------------------ Modal
\* handleOpenChange(open): the Dialog's onOpenChange and the Close button
MdOpenChange(b) ==
    /\ b # modal.open
    /\ modal' = [modal EXCEPT !.open = b,
                              !.closed = IF b THEN 0 ELSE 1,
                              !.busy = IF b THEN @ ELSE FALSE,
                              !.logged = FALSE,
                              !.last = "openChange",
                              !.preOpen = modal.open]
    /\ UNCHANGED <<multiVars, acVars, stores>>

\* the caller passes another isOpen prop:
\* if (externalIsOpen !== undefined) setInternalIsOpen(externalIsOpen)
MdIsOpen(v) ==
    /\ v # modal.isOpen
    /\ modal' = [modal EXCEPT !.isOpen = v,
                              !.open = IF IsSome(v) THEN Get(v) ELSE @,
                              !.busy = IF IsSome(v) /\ ~Get(v) THEN FALSE ELSE @,
                              !.closed = 0,
                              !.logged = FALSE,
                              !.last = "isOpen",
                              !.preOpen = modal.open]
    /\ UNCHANGED <<multiVars, acVars, stores>>

\* the form is submitted with valid data: handleSubmit starts, await onSubmit(data)
MdSubmit ==
    /\ modal.open /\ ~modal.busy
    /\ modal.submits < MaxSubmits
    /\ modal' = [modal EXCEPT !.pending = @ + 1,
                              !.busy = TRUE,
                              !.submits = @ + 1,
                              !.closed = 0,
                              !.logged = FALSE,
                              !.last = "submit",
                              !.preOpen = modal.open]
    /\ UNCHANGED <<multiVars, acVars, stores>>

\* the dialog is closed whatever the outcome of onSubmit
SubmitClosesAlways(outcome) == TRUE

\* try { await onSubmit(data); onClose?.() } catch (error) { console.error(...) }
SubmitCloses(outcome) == outcome = "resolved"

\* onSubmit settles: the rest of handleSubmit runs; onClose is
\* () => handleOpenChange(false)
MdSettle(outcome) ==
    /\ modal.pending > 0
    /\ modal' = [modal EXCEPT !.pending = @ - 1,
                              !.busy = FALSE,
                              !.open = IF SubmitCloses(outcome) THEN FALSE ELSE @,
                              !.closed = IF SubmitCloses(outcome) THEN 1 ELSE 0,
                              !.logged = (outcome = "rejected"),
                              !.last = outcome,
                              !.preOpen = modal.open]
    /\ UNCHANGED <<multiVars, acVars, stores>>

\* ------------------------------------------------------------------ stores
StoreOp(name) ==
    [stores EXCEPT !.last = name, !.preRegistry = stores.registry,
                   !.streak = 0, !.wasChanged = FALSE]

\* create(stateCreator): the store, its initial state, its reset closure
StCreate(initial) ==
    /\ Len(stores.list) < MaxStores
    /\ stores' = [StoreOp("create") EXCEPT
                     !.list = Append(@, [initial |-> initial, state |-> initial]),
                     !.registry = @ \cup {Len(stores.list) + 1}]
    /\ UNCHANGED <<multiVars, acVars, modal>>

\* store.setState(partial, replace)
StSetState(i, partial, replace) ==
    /\ i \in DOMAIN stores.list
    /\ stores' = [StoreOp("setState") EXCEPT
                     !.list[i].state = IF replace THEN partial ELSE Merge(@, partial)]
    /\ UNCHANGED <<multiVars, acVars, modal>>

\* the initial state is merged into the current one
ResetStateMerged(state, initial) == Merge(state, initial)

\* store.setState(initialState, true)
ResetState(state, initial) == initial

\* resetAllStores(): every closure of storeResetFns is called
StResetAll ==
    /\ stores' = [stores EXCEPT
                     !.list = [i \in DOMAIN stores.list |->
                                 IF i \in stores.registry
                                 THEN [stores.list[i] EXCEPT
                                         !.state = ResetState(@, stores.list[i].initial)]
                                 ELSE stores.list[i]],
                     !.last = "resetAll",
                     !.preRegistry = stores.registry,
                     !.streak = IF stores.last = "resetAll" THEN 2 ELSE 1,
                     !.wasChanged = IF stores.last = "resetAll" THEN @
                                    ELSE \E i \in DOMAIN stores.list :
                                            stores.list[i].state # stores.list[i].initial]
    /\ UNCHANGED <<multiVars, acVars, modal>>

\* ---------------------------------------------------------- specifications
\* the selection behaviour: any value, maxSelected and disabled; no onSearch
Init ==
    /\ value \in {None} \cup {Some(v) : v \in SeqsUpTo(OptionSet, MaxValueLen)}
    /\ maxSelected \in {None} \cup {Some(n) : n \in 0..MaxMaxSelected}
    /\ disabled \in BOOLEAN
    /\ onSearchKind = "none"
    /\ InitState
    /\ AcIdle
    /\ AuxIdle

Next ==
    \/ \E o \in OptionSet : SelectItem(o)
    \/ \E o \in OptionSet : ClearOption(o)
    \/ ClearAll
    \/ OpenChange
    \/ \E t \in SearchTexts : Search(t)
    \/ \E v \in {None} \cup {Some(x) : x \in SeqsUpTo(OptionSet, MaxValueLen)} : ChangeValue(v)

Spec == Init /\ [][Next]_vars

\* the search behaviour: onSearch configured, no value, no maxSelected
InitSearch ==
    /\ value = None
    /\ maxSelected = None
    /\ disabled = FALSE
    /\ onSearchKind \in {"sync", "async"}
    /\ InitState
    /\ AcIdle
    /\ AuxIdle

NextSearch ==
    \/ \E t \in SearchTexts : Search(t)
    \/ FireTimer
    \/ \E i \in 1..MaxCalls : Settle(i)
    \/ Tick
    \/ Unmount
    \/ OpenChange
    \/ SelectItem(o1)
    \/ ClearOption(o1)
    \/ ClearAll

SpecSearch == InitSearch /\ [][NextSearch]_vars

NextSingle ==
    \/ AcOpenChange
    \/ \E t \in AcSearchTexts : AcSearch(t)
    \/ \E o \in AcOptionSet : Activate(o)
    \/ \E v \in {None} \cup {Some(o) : o \in AcOptionSet} : AcChangeValue(v)
    \/ \E list \in SeqsUpTo(AcOptionSet, MaxOptionsLen) \cup {acOptions} : AcChangeOptions(list)

SpecSingle == InitSingle /\ [][NextSingle]_vars

InitModal ==
    /\ modal \in {ModalMounted(v) : v \in {None, Some(TRUE), Some(FALSE)}}
    /\ stores = NoStores
    /\ MultiIdle
    /\ AcIdle

NextModal ==
    \/ \E b \in BOOLEAN : MdOpenChange(b)
    \/ \E v \in {None, Some(TRUE), Some(FALSE)} : MdIsOpen(v)
    \/ MdSubmit
    \/ \E outcome \in {"resolved", "rejected"} : MdSettle(outcome)

SpecModal == InitModal /\ [][NextModal]_vars

InitStores ==
    /\ stores = NoStores
    /\ modal = ModalMounted(None)
    /\ MultiIdle
    /\ AcIdle

NextStores ==
    \/ \E initial \in InitialStates : StCreate(initial)
    \/ \E i \in 1..MaxStores, partial \in Partials, replace \in BOOLEAN :
          StSetState(i, partial, replace)
    \/ StResetAll

SpecStores == InitStores /\ [][NextStores]_vars

\* ------------------------------------------------------------------ claims

\* C1: with maxSelected configured, the number of selected options never
\* exceeds maxSelected in any reachable state, the initial state seeded from
\* the value prop and the states after a value resynchronisation included.
C1_CountNeverExceedsMax ==
    IsSome(maxSelected) => Len(selectedOptions) <= Get(maxSelected)

\* C2: for every maxSelected >= 0, a select(options) with
\* options.length > maxSelected is a no-op: selection and search text are
\* unchanged and onChange is not fired.
C2_SelectOverMaxIsNoOp ==
    (/\ last.op = "toggle"
     /\ IsSome(last.arg)
     /\ IsSome(maxSelected)
     /\ Len(Get(last.arg)) > Get(maxSelected))
    => (/\ selectedOptions = last.preSel
        /\ searchValue = last.preSearch
        /\ fired = <<>>)

C4_ToggleTwiceRestoresSequence ==
    tog.n = 2 => Keys(selectedOptions) = Keys(tog.base)

\* C4 as amended: toggle(x) applied twice in a row returns exactly the
\* original sequence when x's key was not selected; when it was, the entries
\* with other keys keep their order, and if the original selection was within
\* the limit (or no limit is in effect) the result is the original without
\* x's key followed by x: the same keys, x moved to the end.  A disabled
\* controller ignores both toggles.
C4_ToggleTwiceMovesToEnd ==
    tog.n = 2 =>
        LET x == Get(tog.opt)
            S == tog.base
        IN  /\ ~isSelected(S, x) => selectedOptions = S
            /\ disabled => selectedOptions = S
            /\ WithoutOption(selectedOptions, x) = WithoutOption(S, x)
            /\ (/\ isSelected(S, x)
                /\ ~disabled
                /\ (~TruthyNumber(maxSelected) \/ Len(S) <= Get(maxSelected)))
               => selectedOptions = Append(WithoutOption(S, x), x)

\* a selected option that was not last, toggled off and on again
C4_Witness ==
    /\ tog.n = 2
    /\ ~disabled
    /\ Len(tog.base) >= 2
    /\ tog.base[1] = Get(tog.opt)
    /\ selectedOptions = Append(Tail(tog.base), Get(tog.opt))
    /\ Keys(selectedOptions) # Keys(tog.base)

Superseded(j) ==
    \E k \in DOMAIN searchCalls : k > j /\ searchCalls[k].at < searchCalls[j].at + Delay

LastOfBurst(j) ==
    \A k \in DOMAIN searchCalls : k > j => searchCalls[k].at > searchCalls[j].at + Delay

MountedThrough(t) == unmountInfo = None \/ Get(unmountInfo).at > t

InvocationsOf(j) == {k \in DOMAIN invocations : invocations[k].call = j}

\* C5: trailing debounce: onSearch is invoked only for a search call that no
\* later call followed within the delay, with that call's text, exactly the
\* delay after it, and exactly once; a call followed by another within the
\* delay never produces an invocation.
C5_TrailingDebounce ==
    /\ \A k \in DOMAIN invocations :
          LET c == searchCalls[invocations[k].call]
          IN  /\ invocations[k].text = c.text
              /\ invocations[k].at = c.at + Delay
              /\ ~Superseded(invocations[k].call)
    /\ \A j \in DOMAIN searchCalls :
          /\ Cardinality(InvocationsOf(j)) <= 1
          /\ Superseded(j) => InvocationsOf(j) = {}
          /\ (/\ LastOfBurst(j)
              /\ now > searchCalls[j].at + Delay
              /\ MountedThrough(searchCalls[j].at + Delay))
             => Cardinality(InvocationsOf(j)) = 1

\* a burst of three calls, each less than the delay after the previous one,
\* answered by one invocation for the third
C5_Witness ==
    /\ Len(searchCalls) = 3
    /\ searchCalls[1].at < searchCalls[2].at
    /\ searchCalls[2].at < searchCalls[3].at
    /\ Superseded(1) /\ Superseded(2)
    /\ searchCalls[3].text # searchCalls[2].text
    /\ Len(invocations) = 1
    /\ invocations[1].call = 3
    /\ now > invocations[1].at

\* C6: with an asynchronous onSearch, when an earlier invocation has settled
\* and the most recently dispatched one is still pending, loading is still
\* true: it returns to false only when the most recent invocation settles.
C6_LoadingUntilLatestSettles ==
    (/\ Len(invocations) >= 2
     /\ Len(invocations) \in inFlight
     /\ (Len(invocations) - 1) \notin inFlight)
    => loading

\* C7: loading is true exactly while an external search invocation is in
\* progress (for an asynchronous callback: until it settles).
C7_LoadingBracketsInvocation == loading <=> (inFlight # {})

\* C8: after the unmount no onSearch invocation is made (a timer that was
\* pending never fires) and no step, the settling of an in-flight onSearch
\* included, changes loading, the selection or the search text.
C8_NothingAfterUnmount ==
    [][~mounted =>
        /\ invocations' = invocations
        /\ loading' = loading
        /\ selectedOptions' = selectedOptions
        /\ searchValue' = searchValue]_vars

\* unmounted with a timer pending and an invocation in flight; the timer's
\* time has passed and the invocation has settled
C8_Witness ==
    /\ ~mounted
    /\ IsSome(Get(unmountInfo).timer)
    /\ now > Get(Get(unmountInfo).timer).due
    /\ Get(unmountInfo).inFlight # {}
    /\ inFlight = {}

\* C9: activating option o sets the selection to none when the current
\* selection has the same identity key as o, firing onChange(null), and to o
\* otherwise.
C9_ActivateSelectsOrTogglesOff ==
    acLast.op = "activate" =>
        LET o == Get(acLast.opt)
        IN  IF IsSome(acLast.preSel)
               /\ getOptionValue(Get(acLast.preSel)) = getOptionValue(o)
            THEN selectedOption = None /\ acFired = <<None>>
            ELSE selectedOption = Some(o)

SelectionLabel == IF IsSome(selectedOption) THEN getOptionLabel(Get(selectedOption)) ELSE <<>>

\* C10: every activation closes the list, resets the search text to the new
\* selection's label ('' for none) and fires onChange exactly once with the
\* new selection; the search text stays so until the next activation, and is
\* the text in effect when the list is next shown.
C10_ActivationClosesAndResets ==
    /\ [](acLast.op = "activate" =>
            /\ ~acOpen
            /\ initialSearch = SelectionLabel
            /\ acFired = <<selectedOption>>)
    /\ [](acLast.op = "open" /\ acOpen =>
            /\ vcSearchValue = initialSearch
            /\ vcFilteredOptions = AcFilter(initialSearch))
    /\ [][acLast'.op # "activate" => initialSearch' = initialSearch]_vars

\* an option was selected by an activation and the list is shown again
C10_Witness ==
    /\ acLast.op = "open" /\ acOpen
    /\ IsSome(selectedOption)
    /\ initialSearch = SelectionLabel
    /\ initialSearch # <<>>
    /\ vcSearchValue = initialSearch

\* C11: after every change of the multi-select's value prop the selection
\* equals the new value, and is empty when no value is given.
C11_ValueChangeOverrides ==
    last.op = "value" => selectedOptions = InitialSelected(value)

\* C12: after every change of the single-select's value prop the selection
\* equals the new value, none for null and undefined.
C12_ValueChangeOverrides ==
    acLast.op = "value" => selectedOption = acValue

RECURSIVE IsSubsequence(_, _)
IsSubsequence(a, b) ==
    IF a = <<>> THEN TRUE
    ELSE IF b = <<>> THEN FALSE
    ELSE IF Head(a) = Head(b) THEN IsSubsequence(Tail(a), Tail(b))
    ELSE IsSubsequence(a, Tail(b))

\* C13: in every reachable state the filtered list that is rendered is a
\* subsequence of the current options list, so no option removed from the
\* options list remains in it.
C13_FilteredWithinOptions ==
    /\ IsSubsequence(vcFilteredOptions, acOptionsProp)
    /\ \A t \in SearchTexts : IsSubsequence(filteredOptions(t), options)

\* the options of list whose lower-cased label contains the lower-cased text
MatchingOptions(list, text) ==
    LET Matches(o) == Includes(ToLowerCase(o.label), ToLowerCase(text))
    IN  SelectSeq(list, Matches)

\* C17: the default filter keeps exactly the options whose lower-cased label
\* contains the lower-cased search term, in the original order, options with
\* the same key all kept; the empty search term keeps the whole list.
C17_DefaultFilter ==
    /\ acLast.op = "search" =>
          /\ vcFilteredOptions = MatchingOptions(acOptionsProp, vcSearchValue)
          /\ IsSubsequence(vcFilteredOptions, acOptionsProp)
          /\ vcSearchValue = <<>> => vcFilteredOptions = acOptionsProp
    /\ \A t \in SearchTexts :
          /\ filteredOptions(t) = MatchingOptions(options, t)
          /\ t = <<>> => filteredOptions(t) = options

\* an upper-case search term that keeps the two options with the same key,
\* one of them through an upper-case letter of its label, and drops others
C17_Witness ==
    /\ acLast.op = "search"
    /\ vcSearchValue = <<"B">>
    /\ acOptionsProp = acOptions
    /\ vcFilteredOptions = <<o1, o2>>

\* the entries of sel whose identity key is not that of option, in order
OtherKeys(sel, option) ==
    LET Other(e) == e.value # option.value
    IN  SelectSeq(sel, Other)

\* C14: after clearOne(x) the selection has no entry with x's key and keeps
\* all other entries in their order; when no entry matched it is unchanged;
\* clearOne(x) applied once more changes nothing.
C14_ClearOne ==
    last.op = "clearOne" =>
        LET x == Get(last.opt)
        IN  /\ \A i \in DOMAIN selectedOptions : selectedOptions[i].value # x.value
            /\ selectedOptions = OtherKeys(last.preSel, x)
            /\ (\A i \in DOMAIN last.preSel : last.preSel[i].value # x.value)
                  => selectedOptions = last.preSel
            /\ WithoutOption(selectedOptions, x) = selectedOptions
            /\ fired = <<selectedOptions>>

\* clearOne of an option that is not selected, on a selection that is not empty
C14_Witness ==
    /\ last.op = "clearOne"
    /\ Len(last.preSel) >= 1
    /\ ~isSelected(last.preSel, Get(last.opt))
    /\ selectedOptions = last.preSel

\* C15: an accepted select(options) (no maxSelected, or options.length <=
\* maxSelected) makes the selection exactly options, in the given order,
\* empties the search text and fires onChange once with that list.
C15_AcceptedSelect ==
    (/\ last.op = "toggle"
     /\ IsSome(last.arg)
     /\ (maxSelected = None \/ Len(Get(last.arg)) <= Get(maxSelected)))
    => (/\ selectedOptions = Get(last.arg)
        /\ searchValue = <<>>
        /\ fired = <<Get(last.arg)>>)

\* a second option added within the limit while a search text was typed
C15_Witness ==
    /\ last.op = "toggle"
    /\ IsSome(last.arg)
    /\ maxSelected = Some(2)
    /\ Len(Get(last.arg)) = 2
    /\ last.preSearch # <<>>
    /\ selectedOptions = Get(last.arg)
    /\ searchValue = <<>>

\* C20: while the controller is disabled, activating a list item leaves the
\* selection and the search text unchanged and fires no onChange; only a
\* change of the value prop alters the selection.
C20_DisabledFrame ==
    /\ [](disabled /\ last.op = "toggle" =>
            /\ selectedOptions = last.preSel
            /\ searchValue = last.preSearch
            /\ fired = <<>>)
    /\ [][disabled /\ selectedOptions' # selectedOptions => last'.op = "value"]_vars
    /\ [][disabled /\ last'.op # "value" =>
            /\ searchValue' = searchValue
            /\ fired' = <<>>]_vars

\* a disabled controller with a selection, its list open and an item activated
C20_Witness ==
    /\ disabled /\ open
    /\ last.op = "toggle"
    /\ Len(selectedOptions) >= 1
    /\ ~isSelected(selectedOptions, Get(last.opt))

\* C19: an accepted select, clearOne or clearAll leaves the pending debounce
\* timer as it is; the search call it belongs to is still answered by exactly
\* one onSearch invocation with that call's text when the delay has elapsed,
\* whatever the displayed search text has become.
C19_SelectKeepsTimer ==
    /\ [][fired' # <<>> =>
            /\ timer' = timer
            /\ searchCalls' = searchCalls
            /\ invocations' = invocations]_vars
    /\ [](\A j \in DOMAIN searchCalls :
            (/\ LastOfBurst(j)
             /\ now > searchCalls[j].at + Delay
             /\ MountedThrough(searchCalls[j].at + Delay))
            => \E k \in DOMAIN invocations :
                  /\ InvocationsOf(j) = {k}
                  /\ invocations[k].text = searchCalls[j].text
                  /\ invocations[k].at = searchCalls[j].at + Delay)

\* a select accepted while the timer of search('b') is pending: the search
\* text shown is '' and the timer still carries 'b'
C19_Witness ==
    /\ last.op = "toggle"
    /\ fired # <<>>
    /\ last.preSearch = <<"b">>
    /\ searchValue = <<>>
    /\ IsSome(timer)
    /\ Get(timer).text = <<"b">>
    /\ now < Get(timer).due

\* C16: when onSubmit rejects the error is caught and logged, onClose is
\* not invoked and the dialog's open state is unchanged; starting a
\* submission does not close the dialog either; the submit path closes the
\* dialog and invokes onClose once onSubmit has resolved.
C16_RejectedSubmitKeepsOpen ==
    /\ modal.last = "rejected" =>
          /\ modal.open = modal.preOpen
          /\ modal.closed = 0
          /\ modal.logged
    /\ modal.last = "submit" =>
          /\ modal.open = modal.preOpen
          /\ modal.closed = 0
    /\ modal.last = "resolved" =>
          /\ ~modal.open
          /\ modal.closed = 1
          /\ ~modal.logged

\* a rejected submission with the dialog still open
C16_Witness ==
    /\ modal.last = "rejected"
    /\ modal.open
    /\ modal.logged
    /\ modal.submits >= 1

\* C18: one resetAllStores() leaves every store created so far with the
\* state captured right after its creation, replaced and not merged, and the
\* registry as it was; a second call leaves the same states.
C18_ResetAllRestoresInitial ==
    stores.last = "resetAll" =>
        /\ \A i \in DOMAIN stores.list : stores.list[i].state = stores.list[i].initial
        /\ stores.registry = DOMAIN stores.list
        /\ stores.registry = stores.preRegistry

\* two stores, at least one changed by setState, reset twice in a row
C18_Witness ==
    /\ stores.last = "resetAll"
    /\ stores.streak = 2
    /\ stores.wasChanged
    /\ Len(stores.list) = 2

====
